---- MODULE Spec2Model ----
(***************************************************************************)
(* CRPS (cereal raw pointer support), include/crps/crps.hpp.               *)
(*                                                                         *)
(* Two wrappers (CRPSOutputArchive, CRPSInputArchive) forward every visit  *)
(* call to the user's archive (the engine) and to a pointer mapper         *)
(* (CRPSOutputMapper, CRPSInputMapper).  complete() writes / reads the     *)
(* pointer-id -> object-id vector behind the payload.                      *)
(*                                                                         *)
(* Addresses are small integers; 0 is nullptr.  The objects the loader     *)
(* constructs live at other addresses than the saved ones (Reloc).         *)
(***************************************************************************)
EXTENDS Integers, Sequences, FiniteSets, TLC

\* ---------------------------------------------------------------- bounds
\* Number of distinct non-null save-side addresses.
NAddr == 2
\* Values (units, pointers, deferred items) one wrapper forwards in its life.
MaxVisits == 3
\* Longest identity map a foreign stream holds.
MaxMapLen == 2

\* Values a loader reading a foreign stream visits.
MaxLoadVisits == 2

\* Identity maps a Tracker used on its own may emit.
MaxFinalize == 2

\* ------------------------------------------------------------- constants
\* nullptr
NullAddr == 0
\* Content of a pointer slot the loader has not initialized yet.
Uninit == -1

Addr == 1 .. NAddr
Addr0 == Addr \cup {NullAddr}

\* Address of the loaded object that stands where the saved object a stood.
Reloc(a) == IF a = NullAddr THEN NullAddr ELSE a + NAddr

LAddr == {Reloc(a) : a \in Addr}

\* ------------------------------------------------------- visited values
\* A value handed to a wrapper's operator():
\*   unit  - an arithmetic value at addr: the engine takes it, the mapper
\*           tracks its address
\*   this  - this_ptr(this) of the object at addr: empty for the engine, the
\*           mapper tracks the address
\*   ptr   - a raw pointer stored at addr, holding target (save side)
\*   defer - a value wrapped in cereal::defer
SaveArg == [kind : {"unit", "this"}, addr : Addr, target : {NullAddr}]
             \cup [kind : {"ptr"}, addr : Addr, target : Addr0]
             \cup [kind : {"defer"}, addr : {NullAddr}, target : {NullAddr}]

LoadArg == [kind : {"unit", "this", "ptr"}, addr : LAddr]
             \cup [kind : {"defer"}, addr : {NullAddr}]

\* The loader's view of a saved value: same kind, relocated identity; the
\* pointer's value is not part of it (the slot is not initialized yet).
RelocArg(x) == [kind |-> x.kind, addr |-> Reloc(x.addr)]

RECURSIVE RelocArgs(_)
RelocArgs(xs) == IF xs = <<>> THEN <<>>
                 ELSE <<RelocArg(Head(xs))>> \o RelocArgs(Tail(xs))

\* ------------------------------------------------------------ the engine
\* Items of the engine's stream.
ValItem(a) == [kind |-> "val", addr |-> a, ids |-> <<>>]
DefItem(a) == [kind |-> "def", addr |-> a, ids |-> <<>>]
MapItem(m) == [kind |-> "map", addr |-> NullAddr, ids |-> m]

\* archive(arg) on save: a unit's value is written, a ThisPointer and a
\* RawPointer are inert for the user archive (their serialize is empty), a
\* deferred value is queued.
EngineSaveOne(ar, x) ==
    CASE x.kind = "unit"  -> [ar EXCEPT !.stream = Append(@, ValItem(x.addr))]
      [] x.kind = "this"  -> ar
      [] x.kind = "ptr"   -> ar
      [] x.kind = "defer" -> [ar EXCEPT !.deferments = Append(@, x.addr)]

RECURSIVE EngineSave(_, _)
EngineSave(ar, args) == IF args = <<>> THEN ar
                        ELSE EngineSave(EngineSaveOne(ar, Head(args)), Tail(args))

\* archive.serializeDeferments() on save: the queued values are written, in
\* the order they were queued.
RECURSIVE EngineSaveDefermentsFrom(_, _)
EngineSaveDefermentsFrom(ar, k) ==
    IF k > Len(ar.deferments) THEN ar
    ELSE EngineSaveDefermentsFrom([ar EXCEPT !.stream = Append(@, DefItem(ar.deferments[k]))],
                                  k + 1)

EngineSaveDeferments(ar) == EngineSaveDefermentsFrom(ar, 1)

\* output_archive(raw_to_obj)
EngineSaveMap(ar, m) == [ar EXCEPT !.stream = Append(@, MapItem(m))]

\* ------------------------------------------------------ CRPSOutputMapper
\* Mutant: the constructor forgets the nullptr entry.
CRPSOutputMapper_ctor_NoNull ==
    [obj_ptr_to_id    |-> [a \in {} |-> 0],
     map_insert_count |-> 0,
     raw_ptr_values   |-> <<>>,
     completed        |-> FALSE]

CRPSOutputMapper_ctor ==
    [obj_ptr_to_id    |-> (NullAddr :> 0),
     map_insert_count |-> 1,
     raw_ptr_values   |-> <<>>,
     completed        |-> FALSE]

\* Mutant: an address already in the map keeps the id of its first tracking.
OutputMapper_trackAddress_FirstWins(m, a) ==
    [m EXCEPT !.obj_ptr_to_id = IF a \in DOMAIN @ THEN @
                                ELSE (a :> m.map_insert_count) @@ @,
              !.map_insert_count = @ + 1]

\* obj_ptr_to_id[std::addressof(t)] = map_insert_count++;
\* The counter is a std::uint32_t; it wraps after 2^32 - 1 tracked values, far
\* beyond MaxVisits, so the increment is exact here.
OutputMapper_trackAddress(m, a) ==
    [m EXCEPT !.obj_ptr_to_id    = (a :> m.map_insert_count) @@ @,
              !.map_insert_count = @ + 1]

\* Mutant: the target is resolved when the pointer is visited; a target the
\* map does not hold yet is recorded as null.
OutputMapper_trackPointer_Eager(m, slot, target) ==
    OutputMapper_trackAddress(
        [m EXCEPT !.raw_ptr_values =
             Append(@, IF target \in DOMAIN m.obj_ptr_to_id THEN target ELSE NullAddr)],
        slot)

\* Mutant: the pointer's value is recorded, the slot itself is not tracked.
OutputMapper_trackPointer_NoSelf(m, slot, target) ==
    [m EXCEPT !.raw_ptr_values = Append(@, target)]

\* Mutant: the slot's address is recorded in place of the pointer's value.
OutputMapper_trackPointer_Slot(m, slot, target) ==
    OutputMapper_trackAddress([m EXCEPT !.raw_ptr_values = Append(@, slot)], slot)

\* raw_ptr_values.push_back(p); trackAddress(p);
OutputMapper_trackPointer(m, slot, target) ==
    OutputMapper_trackAddress([m EXCEPT !.raw_ptr_values = Append(@, target)], slot)

\* pointer_mapper(arg): the save overloads for arithmetic values, ThisPointer
\* and PtrWrapper<T*&>.  A deferred value is queued in the mapper's own
\* OutputArchive base, which nobody flushes: it is never tracked.
OutputMapper_save(m, x) ==
    CASE x.kind = "unit"  -> OutputMapper_trackAddress(m, x.addr)
      [] x.kind = "this"  -> OutputMapper_trackAddress(m, x.addr)
      [] x.kind = "ptr"   -> OutputMapper_trackPointer(m, x.addr, x.target)
      [] x.kind = "defer" -> m

RECURSIVE OutputMapper_process(_, _)
OutputMapper_process(m, args) ==
    IF args = <<>> THEN m
    ELSE OutputMapper_process(OutputMapper_save(m, Head(args)), Tail(args))

\* Mutant: a pointer value the map does not hold is emitted as id 0.
OutputMapper_complete_Lenient(m, ar) ==
    [res |-> "ok",
     archive |-> EngineSaveMap(ar,
                    [i \in 1 .. Len(m.raw_ptr_values) |->
                         IF m.raw_ptr_values[i] \in DOMAIN m.obj_ptr_to_id
                         THEN m.obj_ptr_to_id[m.raw_ptr_values[i]]
                         ELSE 0])]

\* Mutant: the ids are written as they are found, up to the first value the
\* map does not hold.
OutputMapper_complete_Prefix(m, ar) ==
    LET missing == {i \in 1 .. Len(m.raw_ptr_values) :
                        m.raw_ptr_values[i] \notin DOMAIN m.obj_ptr_to_id}
        n == IF missing = {} THEN Len(m.raw_ptr_values)
             ELSE (CHOOSE i \in missing : \A k \in missing : i <= k) - 1
    IN  [res |-> IF missing = {} THEN "ok" ELSE "NotFound",
         archive |-> EngineSaveMap(ar,
                        [i \in 1 .. n |-> m.obj_ptr_to_id[m.raw_ptr_values[i]]])]

\* CRPSOutputMapper::complete(output_archive): the object-ids of the recorded
\* pointer values are collected in a local vector; the first value the map
\* does not hold throws, otherwise the vector is written to the archive.
OutputMapper_complete(m, ar) ==
    IF \E i \in 1 .. Len(m.raw_ptr_values) :
           m.raw_ptr_values[i] \notin DOMAIN m.obj_ptr_to_id
    THEN [res |-> "NotFound", archive |-> ar]
    ELSE [res |-> "ok",
          archive |-> EngineSaveMap(ar,
                         [i \in 1 .. Len(m.raw_ptr_values) |->
                              m.obj_ptr_to_id[m.raw_ptr_values[i]]])]

\* ------------------------------------------------- the engine, loading
\* The engine reads its stream front to back; pos items are consumed.  A read
\* that meets another kind of item, or the end of the stream, throws the
\* engine's own exception (ok = FALSE) and consumes nothing.
NextKind(ar) == IF ar.pos < Len(ar.stream) THEN ar.stream[ar.pos + 1].kind ELSE "eof"

EngineLoadOne(r, x) ==
    IF ~r.ok THEN r
    ELSE CASE x.kind = "unit" ->
                IF NextKind(r.archive) = "val"
                THEN [r EXCEPT !.archive.pos = @ + 1]
                ELSE [r EXCEPT !.ok = FALSE]
           [] x.kind = "this" -> r
           [] x.kind = "ptr" -> r
           [] x.kind = "defer" -> [r EXCEPT !.archive.deferments = Append(@, x.addr)]

RECURSIVE EngineLoadFold(_, _)
EngineLoadFold(r, args) == IF args = <<>> THEN r
                           ELSE EngineLoadFold(EngineLoadOne(r, Head(args)), Tail(args))

\* archive(args...) on load
EngineLoad(ar, args) == EngineLoadFold([archive |-> ar, ok |-> TRUE], args)

\* archive.serializeDeferments() on load: one read per queued value.
RECURSIVE EngineLoadDefermentsFrom(_, _)
EngineLoadDefermentsFrom(r, k) ==
    IF ~r.ok \/ k > Len(r.archive.deferments) THEN r
    ELSE IF NextKind(r.archive) = "def"
         THEN EngineLoadDefermentsFrom([r EXCEPT !.archive.pos = @ + 1], k + 1)
         ELSE [r EXCEPT !.ok = FALSE]

EngineLoadDeferments(ar) == EngineLoadDefermentsFrom([archive |-> ar, ok |-> TRUE], 1)

\* input_archive(raw_to_obj)
EngineLoadMap(ar) ==
    IF NextKind(ar) = "map"
    THEN [ok |-> TRUE, ids |-> ar.stream[ar.pos + 1].ids,
          archive |-> [ar EXCEPT !.pos = @ + 1]]
    ELSE [ok |-> FALSE, ids |-> <<>>, archive |-> ar]

\* ------------------------------------------------------- CRPSInputMapper
CRPSInputMapper_ctor ==
    [obj_ptrs        |-> <<NullAddr>>,
     raw_ptrs        |-> <<>>,
     deferedPtrLoads |-> <<>>,
     completed       |-> FALSE]

\* Mutant: an address already in the table is not entered again.
InputMapper_trackAddress_Dedup(m, a) ==
    IF \E k \in 1 .. Len(m.obj_ptrs) : m.obj_ptrs[k] = a THEN m
    ELSE [m EXCEPT !.obj_ptrs = Append(@, a)]

\* obj_ptrs.push_back(std::addressof(t));
InputMapper_trackAddress(m, a) == [m EXCEPT !.obj_ptrs = Append(@, a)]

\* Mutant: the slot is not tracked as an object of its own.
InputMapper_trackPointer_NoSelf(m, slot) ==
    [m EXCEPT !.raw_ptrs = Append(@, slot),
              !.deferedPtrLoads = Append(@, "assign")]

\* raw_ptrs.push_back(std::addressof(p)); deferedPtrLoads.emplace_back(...);
\* trackAddress(p);
InputMapper_trackPointer(m, slot) ==
    InputMapper_trackAddress([m EXCEPT !.raw_ptrs = Append(@, slot),
                                       !.deferedPtrLoads = Append(@, "assign")], slot)

\* The deferment of trackPointer: *static_cast<T**>(raw) = static_cast<T*>(obj)
Deferment(mem, raw, obj_address) == [mem EXCEPT ![raw] = obj_address]

InputMapper_save(m, x) ==
    CASE x.kind = "unit"  -> InputMapper_trackAddress(m, x.addr)
      [] x.kind = "this"  -> InputMapper_trackAddress(m, x.addr)
      [] x.kind = "ptr"   -> InputMapper_trackPointer(m, x.addr)
      [] x.kind = "defer" -> m

RECURSIVE InputMapper_process(_, _)
InputMapper_process(m, args) ==
    IF args = <<>> THEN m
    ELSE InputMapper_process(InputMapper_save(m, Head(args)), Tail(args))

\* Mutant: the range test is off by one and rejects the last valid id.
RECURSIVE InputMapper_loop_OffByOne(_, _, _, _)
InputMapper_loop_OffByOne(m, raw_to_obj, mem, i) ==
    IF i > Len(m.raw_ptrs) THEN [res |-> "ok", mem |-> mem]
    ELSE IF raw_to_obj[i] + 1 >= Len(m.obj_ptrs)
         THEN [res |-> "Range", mem |-> mem]
         ELSE InputMapper_loop_OffByOne(m, raw_to_obj,
                               [mem EXCEPT ![m.raw_ptrs[i]] = m.obj_ptrs[raw_to_obj[i] + 1]],
                               i + 1)

\* Mutant: an id out of range is passed over and reported after the loop,
\* the other positions having been assigned.
InputMapper_loop_SkipBad(m, raw_to_obj, mem, i) ==
    LET n == Len(m.raw_ptrs)
        bad == {k \in i .. n : raw_to_obj[k] >= Len(m.obj_ptrs)}
        good(a) == {k \in (i .. n) \ bad : m.raw_ptrs[k] = a}
        last(a) == CHOOSE k \in good(a) : \A k2 \in good(a) : k2 <= k
    IN  [res |-> IF bad = {} THEN "ok" ELSE "Range",
         mem |-> [a \in DOMAIN mem |->
                     IF good(a) = {} THEN mem[a]
                     ELSE m.obj_ptrs[raw_to_obj[last(a)] + 1]]]

\* The for loop of CRPSInputMapper::complete from index i (1-based here):
\* an id that is not an index of obj_ptrs throws, the others are assigned.
RECURSIVE InputMapper_loop(_, _, _, _)
InputMapper_loop(m, raw_to_obj, mem, i) ==
    IF i > Len(m.raw_ptrs) THEN [res |-> "ok", mem |-> mem]
    ELSE IF raw_to_obj[i] >= Len(m.obj_ptrs)
         THEN [res |-> "Range", mem |-> mem]
         ELSE InputMapper_loop(m, raw_to_obj,
                               Deferment(mem, m.raw_ptrs[i], m.obj_ptrs[raw_to_obj[i] + 1]),
                               i + 1)

\* Mutant: only a map shorter than the slot list is rejected.
InputMapper_complete_ShortOnly(m, ar, mem) ==
    LET rd == EngineLoadMap(ar) IN
    IF ~rd.ok THEN [res |-> "EngineError", archive |-> rd.archive, mem |-> mem, read |-> <<>>]
    ELSE IF Len(rd.ids) < Len(m.raw_ptrs)
         THEN [res |-> "SizeMismatch", archive |-> rd.archive, mem |-> mem, read |-> rd.ids]
         ELSE LET r == InputMapper_loop(m, rd.ids, mem, 1)
              IN  [res |-> r.res, archive |-> rd.archive, mem |-> r.mem, read |-> rd.ids]

\* CRPSInputMapper::complete(input_archive)
InputMapper_complete(m, ar, mem) ==
    LET rd == EngineLoadMap(ar) IN
    IF ~rd.ok THEN [res |-> "EngineError", archive |-> rd.archive, mem |-> mem, read |-> <<>>]
    ELSE IF Len(rd.ids) # Len(m.raw_ptrs)
         THEN [res |-> "SizeMismatch", archive |-> rd.archive, mem |-> mem, read |-> rd.ids]
         ELSE LET r == InputMapper_loop(m, rd.ids, mem, 1)
              IN  [res |-> r.res, archive |-> rd.archive, mem |-> r.mem, read |-> rd.ids]

\* ------------------------------------------------------------- the state
VARIABLES
    out_life,       \* CRPSOutputArchive: "live" or "dead" (destroyed)
    out_completed,  \* CRPSOutputArchive::completed
    out_mapper,     \* CRPSOutputArchive::pointer_mapper
    out_archive,    \* the user's output archive: stream written, deferments queued
    out_fin,        \* how pointer_mapper.complete ended: "none" while it has not run
    out_last,       \* the last call on the save wrapper and how it ended
    visited,        \* the values the save wrapper forwarded, in order
    out_seen,       \* values the engine had taken when pointer_mapper last tracked
    in_life,        \* CRPSInputArchive: "none" (not constructed), "live", "dead"
    in_completed,   \* CRPSInputArchive::completed
    in_mapper,      \* CRPSInputArchive::pointer_mapper
    in_archive,     \* the user's input archive: stream, items consumed, deferments
    in_fin,         \* how the load-side finalize ended: "none" while it has not run
    in_read,        \* the identity map the load-side finalize read
    in_last,        \* the last call on the load wrapper and how it ended
    in_visited,     \* the values the load wrapper forwarded, in order
    in_seen,        \* values the engine had taken when pointer_mapper last tracked
    lmem            \* the loader's memory: content of every pointer slot

out_vars == <<out_life, out_completed, out_mapper, out_archive, out_fin, out_last, visited,
              out_seen>>
in_vars == <<in_life, in_completed, in_mapper, in_archive, in_fin, in_read, in_last,
             in_visited, in_seen, lmem>>
vars == <<out_life, out_completed, out_mapper, out_archive, out_fin, out_last, visited,
          out_seen, in_life, in_completed, in_mapper, in_archive, in_fin, in_read,
          in_last, in_visited, in_seen, lmem>>

Last(op, res) == [op |-> op, res |-> res]

\* How many values an engine has taken so far, written or read or queued.
SaveProgress(ar) == Len(ar.stream) + Len(ar.deferments)

LoadProgress(ar) == ar.pos + Len(ar.deferments)

\* ----------------------------------------------------- CRPSOutputArchive
\* Mutant: handle without the completed check.
OutputArchive_handle_NoCheck(args) ==
    /\ out_life = "live"
    /\ out_archive' = EngineSave(out_archive, args)
    /\ out_seen' = SaveProgress(out_archive')
    /\ out_mapper' = OutputMapper_process(out_mapper, args)
    /\ visited' = visited \o args
    /\ out_last' = Last("visit", "ok")
    /\ UNCHANGED <<out_life, out_completed, out_fin>>

\* Mutant: the pack goes to pointer_mapper before it goes to the engine.
OutputArchive_handle_MapperFirst(args) ==
    /\ out_life = "live"
    /\ IF out_completed
       THEN /\ out_last' = Last("visit", "UseAfterComplete")
            /\ UNCHANGED <<out_archive, out_mapper, visited, out_seen>>
       ELSE /\ out_seen' = SaveProgress(out_archive)
            /\ out_mapper' = OutputMapper_process(out_mapper, args)
            /\ out_archive' = EngineSave(out_archive, args)
            /\ visited' = visited \o args
            /\ out_last' = Last("visit", "ok")
    /\ UNCHANGED <<out_life, out_completed, out_fin>>

\* Mutant: the pack is forwarded before the completed check is made.
OutputArchive_handle_CheckAfter(args) ==
    /\ out_life = "live"
    /\ out_archive' = EngineSave(out_archive, args)
    /\ out_seen' = SaveProgress(out_archive')
    /\ out_mapper' = OutputMapper_process(out_mapper, args)
    /\ visited' = visited \o args
    /\ out_last' = Last("visit", IF out_completed THEN "UseAfterComplete" ELSE "ok")
    /\ UNCHANGED <<out_life, out_completed, out_fin>>

\* CRPSOutputArchive::handle(args...), reached from operator(), operator&
\* and operator<<.
OutputArchive_handle(args) ==
    /\ out_life = "live"
    /\ IF out_completed
       THEN /\ out_last' = Last("visit", "UseAfterComplete")
            /\ UNCHANGED <<out_archive, out_mapper, visited, out_seen>>
       ELSE /\ out_archive' = EngineSave(out_archive, args)
            /\ out_seen' = SaveProgress(out_archive')
            /\ out_mapper' = OutputMapper_process(out_mapper, args)
            /\ visited' = visited \o args
            /\ out_last' = Last("visit", "ok")
    /\ UNCHANGED <<out_life, out_completed, out_fin>>

\* Mutant: complete without the completed guard.
OutputArchive_finalize_NoGuard ==
    LET r == OutputMapper_complete(out_mapper, EngineSaveDeferments(out_archive))
    IN  /\ out_completed' = TRUE
        /\ out_archive' = r.archive
        /\ out_fin' = r.res

\* Mutant: the identity map is written before the engine's deferments.
OutputArchive_finalize_MapFirst ==
    IF out_completed
    THEN UNCHANGED <<out_completed, out_archive, out_fin>>
    ELSE LET r == OutputMapper_complete(out_mapper, out_archive)
         IN  /\ out_completed' = TRUE
             /\ out_archive' = EngineSaveDeferments(r.archive)
             /\ out_fin' = r.res

\* Mutant: completed is set once the identity map has been written.
OutputArchive_finalize_MarkAfter ==
    IF out_completed
    THEN UNCHANGED <<out_completed, out_archive, out_fin>>
    ELSE LET r == OutputMapper_complete(out_mapper, EngineSaveDeferments(out_archive))
         IN  /\ out_completed' = (r.res = "ok")
             /\ out_archive' = r.archive
             /\ out_fin' = r.res

\* The body of CRPSOutputArchive::complete().
OutputArchive_finalize ==
    IF out_completed
    THEN UNCHANGED <<out_completed, out_archive, out_fin>>
    ELSE LET r == OutputMapper_complete(out_mapper, EngineSaveDeferments(out_archive))
         IN  /\ out_completed' = TRUE
             /\ out_archive' = r.archive
             /\ out_fin' = r.res

\* An explicit call of CRPSOutputArchive::complete().
OutputArchive_complete ==
    /\ out_life = "live"
    /\ OutputArchive_finalize
    /\ out_last' = Last("complete", IF out_completed THEN "noop" ELSE out_fin')
    /\ UNCHANGED <<out_life, out_mapper, visited, out_seen>>

\* Mutant: a destructor that does not call complete().
OutputArchive_dtor_NoFinalize ==
    /\ out_life = "live"
    /\ out_life' = "dead"
    /\ out_last' = Last("destroy", "noop")
    /\ UNCHANGED <<out_completed, out_archive, out_fin, out_mapper, visited, out_seen>>

\* ~CRPSOutputArchive(): complete(), whose exception leaves a destructor and
\* so ends the program (std::terminate).
OutputArchive_dtor ==
    /\ out_life = "live"
    /\ OutputArchive_finalize
    /\ out_life' = "dead"
    /\ out_last' = Last("destroy", IF out_completed THEN "noop"
                                   ELSE IF out_fin' = "ok" THEN "ok" ELSE "terminate")
    /\ UNCHANGED <<out_mapper, visited, out_seen>>

\* ------------------------------------------------------ CRPSInputArchive
\* CRPSInputArchive(archive): constructed over an engine that reads stream.
InputArchive_ctor(stream) ==
    /\ in_life = "none"
    /\ in_life' = "live"
    /\ in_archive' = [stream |-> stream, pos |-> 0, deferments |-> <<>>]
    /\ UNCHANGED <<in_completed, in_mapper, in_fin, in_read, in_last, in_visited, in_seen,
                   lmem>>

\* Mutant: a visited pointer slot is set to nullptr at the visit.
InputArchive_handle_EagerNull(args, ar) ==
    /\ in_life = "live"
    /\ IF in_completed
       THEN /\ in_last' = Last("visit", "UseAfterComplete")
            /\ UNCHANGED <<in_archive, in_mapper, in_visited, in_seen, lmem>>
       ELSE LET e == EngineLoad(ar, args)
            IN  /\ in_archive' = e.archive
                /\ IF e.ok
                   THEN /\ in_seen' = LoadProgress(e.archive)
                        /\ in_mapper' = InputMapper_process(in_mapper, args)
                        /\ in_visited' = in_visited \o args
                        /\ in_last' = Last("visit", "ok")
                        /\ lmem' = [a \in LAddr |->
                                       IF \E k \in 1 .. Len(args) :
                                              args[k].kind = "ptr" /\ args[k].addr = a
                                       THEN NullAddr ELSE lmem[a]]
                   ELSE /\ in_last' = Last("visit", "EngineError")
                        /\ UNCHANGED <<in_mapper, in_visited, in_seen, lmem>>
    /\ UNCHANGED <<in_life, in_completed, in_fin, in_read>>

\* CRPSInputArchive::handle(args...) with the engine in state ar.
InputArchive_handle(args, ar) ==
    /\ in_life = "live"
    /\ IF in_completed
       THEN /\ in_last' = Last("visit", "UseAfterComplete")
            /\ UNCHANGED <<in_archive, in_mapper, in_visited, in_seen>>
       ELSE LET e == EngineLoad(ar, args)
            IN  /\ in_archive' = e.archive
                /\ IF e.ok
                   THEN /\ in_seen' = LoadProgress(e.archive)
                        /\ in_mapper' = InputMapper_process(in_mapper, args)
                        /\ in_visited' = in_visited \o args
                        /\ in_last' = Last("visit", "ok")
                   ELSE /\ in_last' = Last("visit", "EngineError")
                        /\ UNCHANGED <<in_mapper, in_visited, in_seen>>
    /\ UNCHANGED <<in_life, in_completed, in_fin, in_read, lmem>>

\* The body of CRPSInputArchive::complete() with the engine in state ar.
InputArchive_finalize(ar) ==
    IF in_completed
    THEN UNCHANGED <<in_completed, in_archive, in_fin, in_read, lmem>>
    ELSE LET d == EngineLoadDeferments(ar)
             r == InputMapper_complete(in_mapper, d.archive, lmem)
         IN  /\ in_completed' = TRUE
             /\ IF d.ok
                THEN /\ in_archive' = r.archive
                     /\ in_fin' = r.res
                     /\ in_read' = r.read
                     /\ lmem' = r.mem
                ELSE /\ in_archive' = d.archive
                     /\ in_fin' = "EngineError"
                     /\ UNCHANGED <<in_read, lmem>>

\* An explicit call of CRPSInputArchive::complete().
InputArchive_complete(ar) ==
    /\ in_life = "live"
    /\ InputArchive_finalize(ar)
    /\ in_last' = Last("complete", IF in_completed THEN "noop" ELSE in_fin')
    /\ UNCHANGED <<in_life, in_mapper, in_visited, in_seen>>

\* ~CRPSInputArchive()
InputArchive_dtor(ar) ==
    /\ in_life = "live"
    /\ InputArchive_finalize(ar)
    /\ in_life' = "dead"
    /\ in_last' = Last("destroy", IF in_completed THEN "noop"
                                  ELSE IF in_fin' = "ok" THEN "ok" ELSE "terminate")
    /\ UNCHANGED <<in_mapper, in_visited, in_seen>>

\* ------------------------------------------------- save, then load (Spec)
\* A traversal that found the graph unchanged: a pointer slot showed the same
\* target every time it was visited.  The wrappers do not ask for it.
SameGraph(xs) ==
    \A i, j \in 1 .. Len(xs) :
        (xs[i].kind = "ptr" /\ xs[j].kind = "ptr" /\ xs[i].addr = xs[j].addr)
            => xs[i].target = xs[j].target

Init ==
    /\ out_life = "live"
    /\ out_completed = FALSE
    /\ out_mapper = CRPSOutputMapper_ctor
    /\ out_archive = [stream |-> <<>>, deferments |-> <<>>]
    /\ out_fin = "none"
    /\ out_last = Last("none", "none")
    /\ visited = <<>>
    /\ out_seen = 0
    /\ in_life = "none"
    /\ in_completed = FALSE
    /\ in_mapper = CRPSInputMapper_ctor
    /\ in_archive = [stream |-> <<>>, pos |-> 0, deferments |-> <<>>]
    /\ in_fin = "none"
    /\ in_read = <<>>
    /\ in_last = Last("none", "none")
    /\ in_visited = <<>>
    /\ in_seen = 0
    /\ lmem = [a \in LAddr |-> Uninit]

\* A completed wrapper throws before it looks at the values of a visit: one
\* value stands for every pack it may be handed.
RejectedSaveArg == CHOOSE x \in SaveArg : x.kind = "unit"

RejectedLoadArg == CHOOSE x \in LoadArg : x.kind = "ptr"

\* A visit call on the save wrapper: any pack of values while the wrapper
\* forwards, a rejected one once it is completed.
SaveVisit ==
    /\ out_life = "live"
    /\ IF out_completed
       THEN OutputArchive_handle(<<RejectedSaveArg>>)
       ELSE \E n \in 1 .. (MaxVisits - Len(visited)) :
                \E args \in [1 .. n -> SaveArg] : OutputArchive_handle(args)
    /\ UNCHANGED in_vars

SaveComplete == OutputArchive_complete /\ UNCHANGED in_vars

SaveDestroy == OutputArchive_dtor /\ UNCHANGED in_vars

\* The loader opens the stream the saver left behind.
LoadOpen ==
    /\ out_life = "dead"
    /\ InputArchive_ctor(out_archive.stream)
    /\ UNCHANGED out_vars

\* The loader runs the traversal the saver ran: the same values in the same
\* order, in packs of any size; once it is completed, a rejected visit.
LoadVisit ==
    /\ in_life = "live"
    /\ IF in_completed
       THEN InputArchive_handle(<<RejectedLoadArg>>, in_archive)
       ELSE \E n \in 1 .. (Len(visited) - Len(in_visited)) :
                InputArchive_handle(SubSeq(RelocArgs(visited), Len(in_visited) + 1,
                                           Len(in_visited) + n), in_archive)
    /\ UNCHANGED out_vars

LoadComplete == InputArchive_complete(in_archive) /\ UNCHANGED out_vars

LoadDestroy == InputArchive_dtor(in_archive) /\ UNCHANGED out_vars

Next ==
    \/ SaveVisit
    \/ SaveComplete
    \/ SaveDestroy
    \/ LoadOpen
    \/ LoadVisit
    \/ LoadComplete
    \/ LoadDestroy

Spec == Init /\ [][Next]_vars

\* The saver alone, for what concerns the save side only.
NextSave ==
    \/ SaveVisit
    \/ SaveComplete
    \/ SaveDestroy

SpecSave == Init /\ [][NextSave]_vars

\* --------------------------------- load from a foreign stream (SpecLoad)
\* A loader alone, over a stream this saver did not write.  The stream is
\* revealed as the engine reads it: it yields a value wherever the traversal
\* reads one, and behind the payload any identity map, or nothing at all.
Supply(ar, items) == [ar EXCEPT !.stream = @ \o items]

RECURSIVE ForeignValues(_)
ForeignValues(args) ==
    IF args = <<>> THEN <<>>
    ELSE (IF Head(args).kind = "unit" THEN <<ValItem(NullAddr)>> ELSE <<>>)
           \o ForeignValues(Tail(args))

ForeignIds == 0 .. (MaxLoadVisits + 1)

ForeignMaps == UNION {[1 .. n -> ForeignIds] : n \in 0 .. MaxMapLen}

ForeignTails(ar) ==
    LET defs == [k \in 1 .. Len(ar.deferments) |-> DefItem(NullAddr)]
    IN  {<<>>} \cup {defs \o <<MapItem(m)>> : m \in ForeignMaps}

ForeignOpen ==
    /\ InputArchive_ctor(<<>>)
    /\ UNCHANGED out_vars

ForeignVisit ==
    /\ in_life = "live"
    /\ IF in_completed
       THEN InputArchive_handle(<<RejectedLoadArg>>, in_archive)
       ELSE \E n \in 1 .. (MaxLoadVisits - Len(in_visited)) :
              \E args \in [1 .. n -> LoadArg] :
                InputArchive_handle(args, Supply(in_archive, ForeignValues(args)))
    /\ UNCHANGED out_vars

ForeignComplete ==
    /\ in_life = "live"
    /\ IF in_completed
       THEN InputArchive_complete(in_archive)
       ELSE \E t \in ForeignTails(in_archive) :
                InputArchive_complete(Supply(in_archive, t))
    /\ UNCHANGED out_vars

ForeignDestroy ==
    /\ in_life = "live"
    /\ IF in_completed
       THEN InputArchive_dtor(in_archive)
       ELSE \E t \in ForeignTails(in_archive) :
                InputArchive_dtor(Supply(in_archive, t))
    /\ UNCHANGED out_vars

NextLoad ==
    \/ ForeignOpen
    \/ ForeignVisit
    \/ ForeignComplete
    \/ ForeignDestroy

SpecLoad == Init /\ [][NextLoad]_vars

\* ------------------------------------------------- reading a traversal
\* What a sequence of forwarded values says, independently of the mappers.
IsTracked(x) == x.kind \in {"unit", "this", "ptr"}

TrackedPositions(xs) == {j \in 1 .. Len(xs) : IsTracked(xs[j])}

PtrPositions(xs) == {i \in 1 .. Len(xs) : xs[i].kind = "ptr"}

\* Positions at which identity a is traversed.
PositionsOf(xs, a) == {j \in TrackedPositions(xs) : xs[j].addr = a}

\* The i-th value is the PtrRank-th pointer and the TrackRank-th tracked value.
PtrRank(xs, i) == Cardinality({k \in 1 .. i : xs[k].kind = "ptr"})

TrackRank(xs, j) == Cardinality({k \in 1 .. j : IsTracked(xs[k])})

SetMax(S) == CHOOSE m \in S : \A k \in S : k <= m

AllTargetsTraversed(xs) ==
    \A i \in PtrPositions(xs) :
        xs[i].target = NullAddr \/ PositionsOf(xs, xs[i].target) # {}

\* The pointer visit at i comes before every visit of its target.
ForwardRef(xs, i) ==
    /\ xs[i].kind = "ptr"
    /\ xs[i].target # NullAddr
    /\ PositionsOf(xs, xs[i].target) # {}
    /\ \A j \in PositionsOf(xs, xs[i].target) : j > i

\* The pointer visit at i is the last visit of its slot: the value the slot
\* held then is the one the finished traversal saved for it.
LastVisitOfSlot(xs, i) ==
    /\ xs[i].kind = "ptr"
    /\ \A k \in PtrPositions(xs) : xs[k].addr = xs[i].addr => k <= i

MapItems(stream) == {k \in 1 .. Len(stream) : stream[k].kind = "map"}

\* The identity map the saver emitted (when it emitted one).
SavedMap == out_archive.stream[Len(out_archive.stream)].ids

\* Save and load both finalized, the loader having run the saver's traversal.
RoundTrip ==
    /\ out_fin # "none"
    /\ in_fin # "none"
    /\ in_visited = RelocArgs(visited)

\* ------------------------------------- the Trackers alone (SpecTracker)
\* CRPSOutputMapper and CRPSInputMapper used without the wrappers: values are
\* handed to the mappers directly and complete is called on them directly,
\* as often as the caller likes.  The load-side mapper is taken through the
\* save side's track operations and reads what the save-side mapper wrote.
MapperSaveTrack ==
    /\ out_life = "live"
    /\ Len(visited) < MaxVisits
    /\ \E x \in SaveArg :
         /\ out_mapper' = OutputMapper_save(out_mapper, x)
         /\ visited' = Append(visited, x)
    /\ out_last' = Last("track", "ok")
    /\ UNCHANGED <<out_life, out_completed, out_archive, out_fin, out_seen>>
    /\ UNCHANGED in_vars

\* CRPSOutputMapper::complete(output_archive): it neither tests nor sets the
\* mapper's completed member.
MapperSaveComplete ==
    /\ out_life = "live"
    /\ Cardinality(MapItems(out_archive.stream)) < MaxFinalize
    /\ LET r == OutputMapper_complete(out_mapper, out_archive)
       IN  /\ out_archive' = r.archive
           /\ out_fin' = r.res
           /\ out_last' = Last("complete", r.res)
    /\ UNCHANGED <<out_life, out_completed, out_mapper, visited, out_seen>>
    /\ UNCHANGED in_vars

MapperSaveDestroy ==
    /\ out_life = "live"
    /\ out_life' = "dead"
    /\ out_last' = Last("destroy", "noop")
    /\ UNCHANGED <<out_completed, out_mapper, out_archive, out_fin, visited, out_seen>>
    /\ UNCHANGED in_vars

MapperLoadOpen ==
    /\ out_life = "dead"
    /\ in_life = "none"
    /\ in_life' = "live"
    /\ in_archive' = [stream |-> out_archive.stream, pos |-> 0, deferments |-> <<>>]
    /\ UNCHANGED <<in_completed, in_mapper, in_fin, in_read, in_last, in_visited, in_seen,
                   lmem>>
    /\ UNCHANGED out_vars

MapperLoadTrack ==
    /\ in_life = "live"
    /\ Len(in_visited) < Len(visited)
    /\ LET x == RelocArg(visited[Len(in_visited) + 1])
       IN  /\ in_mapper' = InputMapper_save(in_mapper, x)
           /\ in_visited' = Append(in_visited, x)
    /\ in_last' = Last("track", "ok")
    /\ UNCHANGED <<in_life, in_completed, in_archive, in_fin, in_read, in_seen, lmem>>
    /\ UNCHANGED out_vars

\* CRPSInputMapper::complete(input_archive): it neither tests nor sets the
\* mapper's completed member.
MapperLoadComplete ==
    /\ in_life = "live"
    /\ LET r == InputMapper_complete(in_mapper, in_archive, lmem)
       IN  /\ in_archive' = r.archive
           /\ in_fin' = r.res
           /\ in_read' = r.read
           /\ lmem' = r.mem
           /\ in_last' = Last("complete", r.res)
    /\ UNCHANGED <<in_life, in_completed, in_mapper, in_visited, in_seen>>
    /\ UNCHANGED out_vars

NextTracker ==
    \/ MapperSaveTrack
    \/ MapperSaveComplete
    \/ MapperSaveDestroy
    \/ MapperLoadOpen
    \/ MapperLoadTrack
    \/ MapperLoadComplete

SpecTracker == Init /\ [][NextTracker]_vars

\* ------------------------------------------------------------ the claims

\* C1: Round trip.  For a traversal in which every non-null pointer target is
\* a traversed unit, save then load (same traversal order, finalize on the
\* emitted identity map) both succeed and leave every loaded pointer slot
\* pointing at the loaded unit at the traversal position(s) of the saved
\* pointer's target (null for a null pointer); so two pointers with the same
\* saved target have the same loaded target.  The target saved for a slot is
\* the one it held at its last visit; when the slots did not change during
\* the traversal that is the target of every visit of the slot.
C1_RoundTrip ==
    []( (RoundTrip /\ AllTargetsTraversed(visited)) =>
            /\ out_fin = "ok"
            /\ in_fin = "ok"
            /\ \A i \in PtrPositions(visited) :
                 (LastVisitOfSlot(visited, i) \/ SameGraph(visited)) =>
                     /\ visited[i].target = NullAddr => lmem[in_visited[i].addr] = NullAddr
                     /\ \A j \in PositionsOf(visited, visited[i].target) :
                            lmem[in_visited[i].addr] = in_visited[j].addr
            /\ \A i, k \in PtrPositions(visited) :
                 (/\ LastVisitOfSlot(visited, i) \/ SameGraph(visited)
                  /\ LastVisitOfSlot(visited, k) \/ SameGraph(visited)
                  /\ visited[i].target = visited[k].target)
                     => lmem[in_visited[i].addr] = lmem[in_visited[k].addr] )

\* Two pointer slots share a non-null target, a third pointer is null or the
\* target is the slot itself, and the round trip is done.
C1_Witness ==
    /\ RoundTrip
    /\ AllTargetsTraversed(visited)
    /\ in_fin = "ok"
    /\ \E i, k \in PtrPositions(visited) :
         /\ visited[i].addr # visited[k].addr
         /\ visited[i].target = visited[k].target
         /\ visited[i].target # NullAddr
         /\ lmem[in_visited[i].addr] = Reloc(visited[i].target)

\* C2: Forward references resolve.  A pointer traversed before its target
\* does not make the save fail, is emitted with the id its target received
\* (when it was traversed later), and after load points at the loaded
\* target (the slot's target being the one of its last visit); before
\* finalize nothing of the map is in the stream and the mapper holds the raw
\* targets, not ids.
C2_ForwardRefs ==
    []( /\ (out_fin = "NotFound") =>
              \E i \in PtrPositions(visited) :
                  visited[i].target # NullAddr /\ PositionsOf(visited, visited[i].target) = {}
        /\ (out_fin = "none") =>
              /\ MapItems(out_archive.stream) = {}
              /\ out_mapper.raw_ptr_values =
                     [r \in 1 .. Cardinality(PtrPositions(visited)) |->
                         visited[CHOOSE i \in PtrPositions(visited) : PtrRank(visited, i) = r].target]
        /\ (out_fin = "ok") =>
              \A i \in 1 .. Len(visited) :
                  ForwardRef(visited, i) =>
                      SavedMap[PtrRank(visited, i)] =
                          TrackRank(visited, SetMax(PositionsOf(visited, visited[i].target)))
        /\ (RoundTrip /\ in_fin = "ok") =>
              \A i \in 1 .. Len(visited) :
                  (ForwardRef(visited, i) /\ LastVisitOfSlot(visited, i)) =>
                      lmem[Reloc(visited[i].addr)] = Reloc(visited[i].target) )

\* A round trip that succeeded with a pointer visited before its target, the
\* target being another address than the pointer's own slot.
C2_Witness ==
    /\ RoundTrip
    /\ out_fin = "ok"
    /\ in_fin = "ok"
    /\ \E i \in 1 .. Len(visited) :
         /\ ForwardRef(visited, i)
         /\ visited[i].target # visited[i].addr
         /\ lmem[Reloc(visited[i].addr)] = Reloc(visited[i].target)

\* C3: Null identity.  Always: the save-side map sends nullptr to id 0 and no
\* other address to 0; index 0 of the load-side table is null.  A null
\* pointer is emitted as id 0 and is never the cause of a not-found error,
\* and an id 0 read on load assigns null to the slot.
C3_NullIdentity ==
    /\ NullAddr \in DOMAIN out_mapper.obj_ptr_to_id
    /\ out_mapper.obj_ptr_to_id[NullAddr] = 0
    /\ \A a \in DOMAIN out_mapper.obj_ptr_to_id :
           a # NullAddr => out_mapper.obj_ptr_to_id[a] # 0
    /\ in_mapper.obj_ptrs[1] = NullAddr
    /\ (out_fin = "ok") =>
          \A i \in PtrPositions(visited) :
              visited[i].target = NullAddr <=> SavedMap[PtrRank(visited, i)] = 0
    /\ (\A i \in PtrPositions(visited) : visited[i].target = NullAddr)
          => out_fin # "NotFound"
    /\ (in_fin = "ok") =>
          \A k \in 1 .. Len(in_read) :
              (in_read[k] = 0 /\ \A k2 \in 1 .. Len(in_read) :
                                    in_mapper.raw_ptrs[k2] = in_mapper.raw_ptrs[k] => k2 <= k)
                  => lmem[in_mapper.raw_ptrs[k]] = NullAddr

\* A null pointer went through save and load next to a non-null one.
C3_Witness ==
    /\ RoundTrip
    /\ in_fin = "ok"
    /\ \E i, k \in PtrPositions(visited) :
         /\ visited[i].target = NullAddr
         /\ visited[k].target # NullAddr
         /\ SavedMap[PtrRank(visited, i)] = 0
         /\ lmem[Reloc(visited[i].addr)] = NullAddr

\* C4: Use-after-complete.  A visit call made on a wrapper whose complete has
\* run (explicitly, and whether it succeeded or failed) ends with the
\* use-after-complete error; completed is never reset, so this holds for
\* every later visit.
C4_UseAfterComplete ==
    /\ (out_completed /\ out_last.op = "visit") => out_last.res = "UseAfterComplete"
    /\ (in_completed /\ in_last.op = "visit") => in_last.res = "UseAfterComplete"
    /\ (out_fin # "none") => out_completed
    /\ (in_fin # "none") => in_completed

\* After a save whose complete had run, the loader rejected a visit that
\* followed its own complete.
C4_Witness ==
    /\ out_completed
    /\ visited # <<>>
    /\ in_completed
    /\ in_fin = "ok"
    /\ in_last = Last("visit", "UseAfterComplete")

\* Identity maps written to the saver's stream / consumed by the loader.
MapWrites == Cardinality(MapItems(out_archive.stream))

MapReads == Cardinality({k \in MapItems(in_archive.stream) : k <= in_archive.pos})

\* Every pointer slot holds what the identity map read says (the last
\* occurrence of a slot decides).
Applied ==
    \A k \in 1 .. Len(in_mapper.raw_ptrs) :
        (\A k2 \in 1 .. Len(in_mapper.raw_ptrs) :
             in_mapper.raw_ptrs[k2] = in_mapper.raw_ptrs[k] => k2 <= k)
            => lmem[in_mapper.raw_ptrs[k]] = in_mapper.obj_ptrs[in_read[k] + 1]

\* C5 as stated: for any sequence of complete calls on a wrapper followed by
\* its destruction, the identity-map I/O is performed exactly once.
C5_Original ==
    /\ (out_last = Last("destroy", "noop")) => MapWrites = 1
    /\ (in_last = Last("destroy", "noop")) => MapReads = 1

\* C5 (amended): the identity-map I/O is performed at most once per wrapper:
\* once by the first complete (or the destructor) when that finalize does not
\* fail before the I/O, never otherwise; a second or later complete and a
\* destructor after a complete change neither the engine's stream nor any
\* pointer slot.
C5_IdempotentFinalize ==
    /\ [](/\ MapWrites <= 1
          /\ MapReads <= 1
          /\ out_completed => (MapWrites = 1 <=> out_fin = "ok")
          /\ in_completed => (MapReads = 1 <=> in_fin \in {"ok", "SizeMismatch", "Range"}))
    /\ [][/\ out_completed => out_archive' = out_archive
          /\ in_completed => (in_archive' = in_archive /\ lmem' = lmem)]_vars

\* Both wrappers saw a repeated complete after their one identity-map I/O.
C5_Witness ==
    /\ out_last = Last("destroy", "noop")
    /\ MapWrites = 1
    /\ in_last = Last("complete", "noop")
    /\ MapReads = 1
    /\ in_mapper.raw_ptrs # <<>>

\* C6 as stated: a destructor that finds complete not yet called runs
\* finalize, so the identity map has been written (save) or read and applied
\* (load) when the wrapper's life ends.
C6_Original ==
    /\ (out_last.op = "destroy" /\ out_last.res # "noop") => MapWrites = 1
    /\ (in_last.op = "destroy" /\ in_last.res # "noop") => (MapReads = 1 /\ in_fin = "ok")

\* C6 (amended): a destructor that finds complete not yet called runs
\* finalize; at the end of every wrapper lifetime finalize has run, and the
\* identity map has been written (save) or read and applied (load) exactly
\* when that finalize did not fail.
C6_FinalizeOnDestruction ==
    /\ (out_life = "dead") =>
          /\ out_completed
          /\ out_fin # "none"
          /\ out_fin = "ok" <=> MapWrites = 1
          /\ out_last.res = "ok" => out_fin = "ok"
          /\ out_last.res = "terminate" => out_fin = "NotFound"
    /\ (in_life = "dead") =>
          /\ in_completed
          /\ in_fin # "none"
          /\ in_fin = "ok" => (MapReads = 1 /\ Applied)
          /\ in_last.res = "ok" => in_fin = "ok"
          /\ in_last.res = "terminate" => in_fin \in {"EngineError", "SizeMismatch", "Range"}

\* Both wrappers were destroyed without an explicit complete and their
\* destructors finalized.
C6_Witness ==
    /\ out_last = Last("destroy", "ok")
    /\ in_last = Last("destroy", "ok")
    /\ in_mapper.raw_ptrs # <<>>
    /\ Applied

\* C7: Size-mismatch detection.  A load-side finalize that read an identity
\* map fails with the size-mismatch error if and only if the length of that
\* map differs from the number of pointer slots the traversal recorded, be it
\* shorter or longer.
C7_SizeMismatch ==
    (in_fin \notin {"none", "EngineError"}) =>
        /\ in_read = in_archive.stream[in_archive.pos].ids
        /\ Len(in_mapper.raw_ptrs) = Cardinality(PtrPositions(in_visited))
        /\ in_fin = "SizeMismatch" <=> Len(in_read) # Len(in_mapper.raw_ptrs)

\* A map longer than a non-empty slot list was rejected.
C7_Witness ==
    /\ in_fin = "SizeMismatch"
    /\ in_mapper.raw_ptrs # <<>>
    /\ Len(in_read) > Len(in_mapper.raw_ptrs)
    /\ \A k \in 1 .. Len(in_read) : in_read[k] = 0

\* Number of units the load traversal tracked.
NumTracked == Cardinality(TrackedPositions(in_visited))

\* C8: Range detection.  With matching lengths, load-side finalize fails with
\* the range error if and only if some id read exceeds the number of tracked
\* units (0..n pass, n+1 and above fail); an accepted id is an index of the
\* id-to-address table.
C8_Range ==
    (in_fin \notin {"none", "EngineError"} /\ Len(in_read) = Len(in_mapper.raw_ptrs)) =>
        /\ Len(in_mapper.obj_ptrs) = NumTracked + 1
        /\ in_fin \in {"ok", "Range"}
        /\ in_fin = "Range" <=> \E k \in 1 .. Len(in_read) : in_read[k] > NumTracked
        /\ in_fin = "ok" =>
              \A k \in 1 .. Len(in_read) : (in_read[k] + 1) \in DOMAIN in_mapper.obj_ptrs

\* The largest valid id, n for n tracked units, was accepted and assigned.
C8_Witness ==
    /\ in_fin = "ok"
    /\ NumTracked >= 2
    /\ \E k \in 1 .. Len(in_read) :
         /\ in_read[k] = NumTracked
         /\ lmem[in_mapper.raw_ptrs[k]] = in_mapper.obj_ptrs[NumTracked + 1]

\* C9: Dangling target on save.  Save-side finalize fails (not found) if and
\* only if some recorded pointer occurrence has a non-null target whose
\* identity was never given an object-id during the traversal.
C9_Dangling ==
    /\ DOMAIN out_mapper.obj_ptr_to_id =
           {NullAddr} \cup {visited[j].addr : j \in TrackedPositions(visited)}
    /\ (out_fin # "none") =>
          /\ out_fin \in {"ok", "NotFound"}
          /\ out_fin = "NotFound" <=>
               \E i \in PtrPositions(visited) :
                   /\ visited[i].target # NullAddr
                   /\ visited[i].target \notin DOMAIN out_mapper.obj_ptr_to_id

\* Finalize failed on a traversal that tracked a unit and a pointer slot,
\* neither of them the pointer's target.
C9_Witness ==
    /\ out_fin = "NotFound"
    /\ \E i \in PtrPositions(visited) : PositionsOf(visited, visited[i].target) = {}
    /\ \E j \in TrackedPositions(visited) : visited[j].kind = "unit"
    /\ MapWrites = 0

\* What the engine writes for a traversal: the visited units' values, then,
\* at serializeDeferments, the deferred values.
RECURSIVE Payload(_)
Payload(xs) ==
    IF xs = <<>> THEN <<>>
    ELSE (IF Head(xs).kind = "unit" THEN <<ValItem(Head(xs).addr)>> ELSE <<>>)
           \o Payload(Tail(xs))

RECURSIVE DeferredPayload(_)
DeferredPayload(xs) ==
    IF xs = <<>> THEN <<>>
    ELSE (IF Head(xs).kind = "defer" THEN <<DefItem(Head(xs).addr)>> ELSE <<>>)
           \o DeferredPayload(Tail(xs))

\* C10: Trailing identity map.  On save the identity map is the last item of
\* the stream, behind every visited value and the engine's deferred items; on
\* load it is read behind all of them, after every forwarded visit; once
\* finalize has run no visit is forwarded and the engine is not touched.
C10_TrailingMap ==
    /\ [](/\ \A k \in MapItems(out_archive.stream) : k = Len(out_archive.stream)
          /\ (out_fin = "none") => out_archive.stream = Payload(visited)
          /\ (out_fin = "ok") =>
                SubSeq(out_archive.stream, 1, Len(out_archive.stream) - 1)
                    = Payload(visited) \o DeferredPayload(visited)
          /\ (in_fin \in {"ok", "SizeMismatch", "Range"}) =>
                /\ in_archive.stream[in_archive.pos].kind = "map"
                /\ in_archive.pos =
                       Len(Payload(in_visited)) + Len(DeferredPayload(in_visited)) + 1)
    /\ [][/\ (out_fin # "none") => (out_archive' = out_archive /\ visited' = visited)
          /\ (in_fin # "none") => (in_archive' = in_archive /\ in_visited' = in_visited)]_vars

\* A traversal with a unit, a deferred value and a pointer went through save
\* and load, and the loader then rejected a visit.
C10_Witness ==
    /\ RoundTrip
    /\ out_fin = "ok"
    /\ in_fin = "ok"
    /\ Payload(visited) # <<>>
    /\ DeferredPayload(visited) # <<>>
    /\ PtrPositions(visited) # {}
    /\ in_last = Last("visit", "UseAfterComplete")

\* The object-id the finished save traversal xs gives identity a: 0 for
\* nullptr, else the rank of a's last visit among the tracked values.
FinalId(xs, a) ==
    IF a = NullAddr THEN 0 ELSE TrackRank(xs, SetMax(PositionsOf(xs, a)))

\* C11: Identity-map shape.  A save finalize that succeeds emits exactly one
\* entry per pointer visit, in traversal order, and the i-th entry is the
\* object-id of the target the i-th pointer visit held when it was visited.
C11_MapShape ==
    (out_fin = "ok") =>
        /\ Len(SavedMap) = Cardinality(PtrPositions(visited))
        /\ \A i \in PtrPositions(visited) :
               SavedMap[PtrRank(visited, i)] = FinalId(visited, visited[i].target)

\* A map of two entries was emitted for two visits of one slot, which held
\* a traversed target at the first visit and nullptr at the second: the first
\* entry is the target's id, the second is 0.
C11_Witness ==
    /\ out_fin = "ok"
    /\ Len(SavedMap) = 2
    /\ \E i, k \in PtrPositions(visited) :
           /\ i < k
           /\ visited[i].addr = visited[k].addr
           /\ visited[i].target \notin {NullAddr, visited[i].addr}
           /\ visited[k].target = NullAddr
           /\ SavedMap[1] = FinalId(visited, visited[i].target)
           /\ SavedMap[1] # 0
           /\ SavedMap[2] = 0

\* How many values of xs the engine takes: the units and the deferred values.
EngineCount(xs) == Len(Payload(xs)) + Len(DeferredPayload(xs))

\* C12: Forwarding order.  In every visit call that succeeds the engine has
\* taken all the values of the call by the time the Tracker records them, on
\* save and on load; and before finalize the Tracker's recording neither
\* writes to nor reads from the engine's stream, which holds, or has been
\* read up to, the visited units' values and nothing else.
C12_ForwardingOrder ==
    /\ out_seen = EngineCount(visited)
    /\ in_seen = EngineCount(in_visited)
    /\ (out_fin = "none") =>
           /\ out_archive.stream = Payload(visited)
           /\ Len(out_archive.deferments) = Len(DeferredPayload(visited))
    /\ (in_fin = "none") =>
           /\ in_archive.pos = Len(Payload(in_visited))
           /\ Len(in_archive.deferments) = Len(DeferredPayload(in_visited))

\* The loader's last call forwarded values: the engine took one of them, and
\* the Tracker recorded it, a pointer and a this_ptr, of which the engine
\* takes nothing.
C12_Witness ==
    /\ in_last = Last("visit", "ok")
    /\ in_fin = "none"
    /\ in_seen = 1
    /\ out_seen = 1
    /\ PtrPositions(in_visited) # {}
    /\ \E j \in 1 .. Len(in_visited) : in_visited[j].kind = "this"
    /\ Len(in_mapper.obj_ptrs) = 4

\* Identities the traversal xs tracks more than once.
Retracked(xs) == {a \in Addr : Cardinality(PositionsOf(xs, a)) >= 2}

\* C13: Last write wins on save.  When an identity is tracked more than once,
\* the map holds for it the id of its last tracking, and every pointer
\* occurrence targeting it, visited before, between or after the repeated
\* visits, is emitted with that id.
C13_LastWriteWins ==
    \A a \in Retracked(visited) :
        LET last == TrackRank(visited, SetMax(PositionsOf(visited, a)))
        IN  /\ out_mapper.obj_ptr_to_id[a] = last
            /\ (out_fin = "ok") =>
                   \A i \in PtrPositions(visited) :
                       (visited[i].target = a) => SavedMap[PtrRank(visited, i)] = last

\* A pointer visited between two visits of its target was emitted with the
\* id of the second visit.
C13_Witness ==
    /\ out_fin = "ok"
    /\ \E a \in Retracked(visited) : \E i \in PtrPositions(visited) :
           /\ visited[i].target = a
           /\ visited[i].addr # a
           /\ \E j \in PositionsOf(visited, a) : j < i
           /\ \E j \in PositionsOf(visited, a) : j > i
           /\ SavedMap[PtrRank(visited, i)] = 3

\* The two Trackers have been taken through the same track operations.
SameTracking == in_visited = RelocArgs(visited)

\* The statement of C14 as written: the identity tracked k-th has id k on
\* the save side whatever is tracked after it.
C14_Original ==
    SameTracking =>
        /\ out_mapper.map_insert_count = Len(in_mapper.obj_ptrs)
        /\ out_mapper.map_insert_count = 1 + Cardinality(TrackedPositions(visited))
        /\ \A j \in TrackedPositions(visited) :
               /\ out_mapper.obj_ptr_to_id[visited[j].addr] = TrackRank(visited, j)
               /\ in_mapper.obj_ptrs[TrackRank(visited, j) + 1] = Reloc(visited[j].addr)

\* C14: Id alignment.  After the same track operations on a save-side and a
\* load-side Tracker the save side's next object-id equals the length of the
\* load side's table, both being one more than the number of operations; the
\* k-th operation put its identity at index k of the load-side table, and on
\* the save side that identity has id k unless it was tracked again later,
\* when it has the id of its last tracking.
C14_IdAlignment ==
    []( SameTracking =>
            /\ out_mapper.map_insert_count = Len(in_mapper.obj_ptrs)
            /\ out_mapper.map_insert_count = 1 + Cardinality(TrackedPositions(visited))
            /\ \A j \in TrackedPositions(visited) :
                   /\ out_mapper.obj_ptr_to_id[visited[j].addr]
                          = TrackRank(visited, SetMax(PositionsOf(visited, visited[j].addr)))
                   /\ out_mapper.obj_ptr_to_id[visited[j].addr] >= TrackRank(visited, j)
                   /\ in_mapper.obj_ptrs[TrackRank(visited, j) + 1] = Reloc(visited[j].addr) )

\* Both Trackers went through three operations, two of them on one identity.
C14_Witness ==
    /\ SameTracking
    /\ Retracked(visited) # {}
    /\ Len(in_mapper.obj_ptrs) = 4
    /\ out_mapper.map_insert_count = 4

\* Every pointer of xs is null or targets a pointer slot that xs visits.
TargetsAreSlots(xs) ==
    \A i \in PtrPositions(xs) :
        \/ xs[i].target = NullAddr
        \/ \E j \in PtrPositions(xs) : xs[j].addr = xs[i].target

\* C15: A pointer slot is itself a tracked unit.  On both sides every pointer
\* visit adds one entry to the pointer list and takes one object-id for the
\* slot's own identity; so a traversal whose pointers target pointer slots
\* (another slot, or the pointer's own) is saved without a not-found failure
\* and after load every such pointer holds the address of the loaded slot
\* (for the target the pointer held at the last visit of its slot).
C15_SlotIsTracked ==
    []( /\ Len(out_mapper.raw_ptr_values) = Cardinality(PtrPositions(visited))
        /\ out_mapper.map_insert_count = 1 + Cardinality(TrackedPositions(visited))
        /\ Len(in_mapper.raw_ptrs) = Cardinality(PtrPositions(in_visited))
        /\ Len(in_mapper.obj_ptrs) = 1 + Cardinality(TrackedPositions(in_visited))
        /\ \A i \in PtrPositions(visited) :
               /\ visited[i].addr \in DOMAIN out_mapper.obj_ptr_to_id
               /\ out_mapper.obj_ptr_to_id[visited[i].addr] >= TrackRank(visited, i)
        /\ \A i \in PtrPositions(in_visited) :
               in_mapper.obj_ptrs[TrackRank(in_visited, i) + 1] = in_visited[i].addr
        /\ (out_fin # "none" /\ TargetsAreSlots(visited)) => out_fin = "ok"
        /\ (RoundTrip /\ TargetsAreSlots(visited)) =>
               /\ in_fin = "ok"
               /\ \A i \in PtrPositions(visited) :
                      LastVisitOfSlot(visited, i) =>
                          lmem[Reloc(visited[i].addr)] =
                              IF visited[i].target = NullAddr THEN NullAddr
                              ELSE Reloc(visited[i].target) )

\* A round trip of pointers only: one slot holds its own address, another
\* slot holds the address of the first.
C15_Witness ==
    /\ RoundTrip
    /\ in_fin = "ok"
    /\ TrackedPositions(visited) = PtrPositions(visited)
    /\ \E i, k \in PtrPositions(visited) :
           /\ visited[i].target = visited[i].addr
           /\ visited[k].target = visited[i].addr
           /\ visited[k].addr # visited[i].addr
           /\ lmem[Reloc(visited[k].addr)] = Reloc(visited[i].addr)
           /\ lmem[Reloc(visited[i].addr)] = Reloc(visited[i].addr)

\* C16: Tracker-level finalize is idempotent.  Once the save-side Tracker's
\* finalize has run, a further call emits nothing; once the load-side
\* Tracker's finalize has run, a further call reads nothing and assigns no
\* pointer.
C16_TrackerIdempotent ==
    /\ [][(out_fin # "none" /\ out_last'.op = "complete")
             => out_archive' = out_archive]_vars
    /\ [][(in_fin # "none" /\ in_last'.op = "complete")
             => (in_archive' = in_archive /\ lmem' = lmem)]_vars

Untouched == lmem = [a \in LAddr |-> Uninit]

\* The deferred assignments of the first n pointer visits, and no other, have
\* been applied in the order of the visits: a slot visited among them holds
\* what the map says for its last visit, any other slot holds nothing.
AppliedUpTo(n) ==
    \A a \in LAddr :
        LET ks == {k \in 1 .. n : in_mapper.raw_ptrs[k] = a}
        IN  lmem[a] = IF ks = {} THEN Uninit
                      ELSE in_mapper.obj_ptrs[in_read[SetMax(ks)] + 1]

\* The first position of the map read whose id is not an index of the table.
FirstBad ==
    CHOOSE k \in 1 .. Len(in_read) :
        /\ in_read[k] >= Len(in_mapper.obj_ptrs)
        /\ \A k2 \in 1 .. (k - 1) : in_read[k2] < Len(in_mapper.obj_ptrs)

\* C17: Deferred fix-up on load.  No visit writes a pointer slot: the slots
\* are written only in the step in which finalize runs, with the identity
\* map read and as long as the list of pointer visits, and they are written
\* in the order of the pointer visits, a later visit of a slot deciding.
C17_DeferredFixup ==
    /\ [](in_fin = "none" => Untouched)
    /\ [](in_fin = "ok" => AppliedUpTo(Len(in_mapper.raw_ptrs)))
    /\ [][lmem' # lmem =>
             /\ in_fin = "none"
             /\ in_fin' \in {"ok", "Range"}
             /\ in_last'.op \in {"complete", "destroy"}
             /\ MapReads' = 1
             /\ Len(in_read') = Len(in_mapper.raw_ptrs)]_vars

\* One slot was visited twice, the map gave the two visits different targets
\* and the slot holds the target of the second.
C17_Witness ==
    /\ in_fin = "ok"
    /\ Len(in_mapper.raw_ptrs) = 2
    /\ in_mapper.raw_ptrs[1] = in_mapper.raw_ptrs[2]
    /\ in_mapper.obj_ptrs[in_read[1] + 1] # in_mapper.obj_ptrs[in_read[2] + 1]
    /\ lmem[in_mapper.raw_ptrs[2]] = in_mapper.obj_ptrs[in_read[2] + 1]

LoadFailed == in_fin \in {"EngineError", "SizeMismatch", "Range"}

\* The statement of C18 as written: a load-side finalize that failed has
\* applied no deferred assignment.
C18_Original == LoadFailed => Untouched

\* C18: Partial success on load.  A load-side finalize that fails on the
\* length of the map, or on reading it, has applied no deferred assignment;
\* one that fails on an id out of range at position i has applied the
\* assignments of the positions before i, and none from i on.
C18_PartialOnRange ==
    /\ (in_fin \in {"EngineError", "SizeMismatch"}) => Untouched
    /\ (in_fin = "Range") => AppliedUpTo(FirstBad - 1)

\* Finalize failed on the second id of the map after the first pointer had
\* been assigned, the second slot being left as it was.
C18_Witness ==
    /\ in_fin = "Range"
    /\ Len(in_read) = 2
    /\ FirstBad = 2
    /\ lmem[in_mapper.raw_ptrs[1]] # Uninit
    /\ lmem[in_mapper.raw_ptrs[2]] = Uninit

\* C19: Save failure emits no identity map.  When the save-side finalize
\* fails for a target that was never traversed, no identity map, nor any part
\* of one, is in the engine's stream: the stream holds the visited values and
\* the engine's deferred values and ends there.
C19_NoMapOnFailure ==
    (out_fin = "NotFound") =>
        /\ MapItems(out_archive.stream) = {}
        /\ out_archive.stream = Payload(visited) \o DeferredPayload(visited)

\* Finalize failed on the second of two recorded pointer values, the first
\* of which resolves, after the engine had written a visited value.
C19_Witness ==
    /\ out_fin = "NotFound"
    /\ Len(Payload(visited)) = 1
    /\ Len(out_archive.stream) = 1
    /\ Len(out_mapper.raw_ptr_values) = 2
    /\ out_mapper.raw_ptr_values[1] \in DOMAIN out_mapper.obj_ptr_to_id
    /\ out_mapper.raw_ptr_values[1] # NullAddr
    /\ out_mapper.raw_ptr_values[2] \notin DOMAIN out_mapper.obj_ptr_to_id

\* C20: A rejected visit has no effect.  A visit call on a wrapper whose
\* complete has run fails with the use-after-complete error and leaves the
\* engine, the Tracker (its counter, its tables, its pointer lists), the
\* completed flag and the loader's memory as they were, on save and on load.
C20_RejectedVisit ==
    /\ [][(out_completed /\ out_last'.op = "visit") =>
             /\ out_last'.res = "UseAfterComplete"
             /\ UNCHANGED <<out_life, out_completed, out_mapper, out_archive, out_fin,
                            visited, out_seen>>]_vars
    /\ [][(in_completed /\ in_last'.op = "visit") =>
             /\ in_last'.res = "UseAfterComplete"
             /\ UNCHANGED <<in_life, in_completed, in_mapper, in_archive, in_fin, in_read,
                            in_visited, in_seen, lmem>>]_vars

\* The saver rejected a visit after a finalize that had written the map of a
\* traversal with a pointer in it.
C20_Witness ==
    /\ out_life = "live"
    /\ out_completed
    /\ out_fin = "ok"
    /\ out_last = Last("visit", "UseAfterComplete")
    /\ PtrPositions(visited) # {}

SaveFailed == out_fin = "NotFound"

\* C21: A failed finalize is never retried.  The wrapper is completed as soon
\* as its finalize has run, failed or not; after a finalize that failed every
\* further complete call and the destructor are no-ops that leave the
\* engine, the Tracker, the result of the finalize and the loader's memory
\* as they are, and every further visit fails with the use-after-complete
\* error.
C21_NoRetry ==
    /\ [](out_fin # "none" => out_completed)
    /\ [](in_fin # "none" => in_completed)
    /\ [][SaveFailed =>
             /\ UNCHANGED <<out_completed, out_archive, out_mapper, out_fin, visited>>
             /\ out_last' \in {out_last, Last("visit", "UseAfterComplete"),
                               Last("complete", "noop"), Last("destroy", "noop")}]_vars
    /\ [][LoadFailed =>
             /\ UNCHANGED <<in_completed, in_archive, in_mapper, in_fin, in_read,
                            in_visited, lmem>>
             /\ in_last' \in {in_last, Last("visit", "UseAfterComplete"),
                              Last("complete", "noop"), Last("destroy", "noop")}]_vars

\* The saver's complete failed on a dangling pointer and its destructor then
\* did nothing; the loader's complete failed on the stream without a map and
\* the loader then rejected a visit.
C21_Witness ==
    /\ SaveFailed
    /\ out_last = Last("destroy", "noop")
    /\ LoadFailed
    /\ in_life = "live"
    /\ in_last = Last("visit", "UseAfterComplete")

====
